---- MODULE Spec2Model ----
(***************************************************************************)
(* A model of the forwarding proxy: config.LoadConfig, the header and URL  *)
(* rewriting of proxy.Client.ForwardRequest, and the request handlers of   *)
(* proxy.Handler (ServeHTTP, HealthCheck, Metrics) running concurrently    *)
(* on one shared Client.                                                   *)
(*                                                                         *)
(* Text (header names, paths, environment values) is a sequence of         *)
(* one-character strings, so that case folding, percent-escapes and        *)
(* strconv.Atoi are computed rather than assumed.                          *)
(***************************************************************************)
EXTENDS Integers, Sequences, FiniteSets, TLC

\* ------------------------------------------------------------------ bounds
\* Header lines on the wire of one message.
MaxHdrLines == 3
\* Handler goroutines running at once (SpecConcurrent).
NumReqs == 2
\* Handler invocations the server starts in one behaviour.
MaxServed == 2
\* Chunks of an upstream response body.
MaxBody == 1

\* ------------------------------------------------------------------ state
VARIABLES
    hpc,        \* header pipeline: "wire", "parsed", "copied"
    hdir,       \* "request" (copyHeaders) or "response" (copyResponseHeaders)
    hwire,      \* the header lines as sent by the peer
    hremote,    \* src.RemoteAddr
    hhost,      \* src.Host
    hsrc,       \* src.Header as parsed by net/http
    hdst        \* dst.Header after the copy

hvars == <<hpc, hdir, hwire, hremote, hhost, hsrc, hdst>>

VARIABLES
    upc,         \* "wire", "served" (handler has r.URL), "built"
    uscheme,     \* c.config.Target.Scheme
    uhost,       \* c.config.Target.Host
    umethod,     \* originalReq.Method
    uwirePath,   \* the path of the request target as the caller sent it
    uwireQuery,  \* the query string as the caller sent it
    uin,         \* originalReq.URL: [Path, RawQuery]
    utarget,     \* targetURL
    uout,        \* req.URL of the outbound request (err: NewRequest failed)
    uoutMethod   \* req.Method

uvars == <<upc, uscheme, uhost, umethod, uwirePath, uwireQuery, uin, utarget,
           uout, uoutMethod>>

VARIABLES
    cpc,        \* config.LoadConfig: "call", "done"
    cfile,      \* the file at configPath: [kind, json]
    cenv,       \* the process environment: name -> [set, val]
    cafter,     \* the Config after applyEnvironmentOverrides
    cresult     \* what LoadConfig returned: [err, config]

cvars == <<cpc, cfile, cenv, cafter, cresult>>

VARIABLES
    now,          \* the clock, in seconds
    served,       \* handler invocations the server has started
    proxyKind,    \* cfg.Proxy.URL: "valid", or "unusable" (parses, no scheme)
    targetOK,     \* Target.Scheme + "://" + Target.Host parses as a URL
    proxyUser,    \* proxyURL.User, the field of the URL the Proxy closure shares
    kind,         \* per request: "none", "proxy", "health", "metrics"
    method,       \* r.Method
    pathOK,       \* targetURL of this request parses (see UrlParse)
    pc,           \* where the request's goroutine is
    start,        \* start := time.Now()
    ctx,          \* context.WithTimeout: [deadline, err]
    timer,        \* http.Client.Timeout: [armed, deadline, fired]
    gone,         \* the inbound request's context was cancelled
    call,         \* the outbound call: "none", "active", "failed", "closed"
    routed,       \* what the Proxy closure returned: [url, user]
    ferr,         \* why httpClient.Do (or NewRequest) failed, or "nil"
    statusCode,   \* ServeHTTP's statusCode variable
    errorMsg,     \* ServeHTTP's errorMsg variable
    resp,         \* the upstream response: [status, header, left]
    wHeader,      \* w.Header() when the status line was written
    wStatus,      \* the status codes written with WriteHeader, in order
    wBody,        \* what was written with Write, in order
    wOrder,       \* the order of "headers", "status", "body" on the wire
    log           \* the logger calls of the request, in order

svars == <<now, served, proxyKind, targetOK, proxyUser, kind, method, pathOK, pc,
           start, ctx, timer, gone, call, routed, ferr, statusCode, errorMsg,
           resp, wHeader, wStatus, wBody, wOrder, log>>

VARIABLES
    lpc,        \* the logger: "idle", "run"
    lformat,    \* l.format: "json", or anything else ("text")
    llevel,     \* l.level
    lhist,      \* the log calls since the level was set: [level, min, written]
    lwritten    \* what the last log call wrote to l.writer

lvars == <<lpc, lformat, llevel, lhist, lwritten>>

VARIABLES
    mpc,        \* main: "idle", "new", "wait", "signalled", "shutdown", "exited"
    murl,       \* cfg.Proxy.URL
    mnew,       \* what proxy.NewHandler returned: [err, handler]
    mlisten,    \* the server's listener: "none", "open", "closed"
    mconn,      \* per connection: "none", "active", "done", "late", "aborted"
    mnow,       \* the clock, in seconds
    mctx,       \* the context of server.Shutdown: [deadline, err]
    mlog,       \* the messages main has logged, in order
    mexit       \* the process: "running", or its exit status "0", "1"

mvars == <<mpc, murl, mnew, mlisten, mconn, mnow, mctx, mlog, mexit>>

vars == <<hvars, uvars, cvars, svars, lvars, mvars>>

\* What the actions of one part leave alone.
HFrame == UNCHANGED <<uvars, cvars, svars, lvars, mvars>>
UFrame == UNCHANGED <<hvars, cvars, svars, lvars, mvars>>
CFrame == UNCHANGED <<hvars, uvars, svars, lvars, mvars>>
SFrame == UNCHANGED <<hvars, uvars, cvars, lvars, mvars>>
LFrame == UNCHANGED <<hvars, uvars, cvars, svars, mvars>>
MFrame == UNCHANGED <<hvars, uvars, cvars, svars, lvars>>

\* ------------------------------------------------------------------- text
Lowers == <<"a","b","c","d","e","f","g","h","i","j","k","l","m",
            "n","o","p","q","r","s","t","u","v","w","x","y","z">>
Uppers == <<"A","B","C","D","E","F","G","H","I","J","K","L","M",
            "N","O","P","Q","R","S","T","U","V","W","X","Y","Z">>

UpperOf == [c \in {Lowers[i] : i \in 1..26} |->
                Uppers[CHOOSE i \in 1..26 : Lowers[i] = c]]
LowerOf == [c \in {Uppers[i] : i \in 1..26} |->
                Lowers[CHOOSE i \in 1..26 : Uppers[i] = c]]

ToUpper(c) == IF c \in DOMAIN UpperOf THEN UpperOf[c] ELSE c

ToLower(c) == IF c \in DOMAIN LowerOf THEN LowerOf[c] ELSE c

\* strings.ToLower / strings.EqualFold on a whole name
LowerStr(s) == [i \in 1..Len(s) |-> ToLower(s[i])]

\* textproto.CanonicalMIMEHeaderKey: the first letter and every letter after
\* a '-' in upper case, all others in lower case.
CanonicalMIMEHeaderKey(s) ==
    [i \in 1..Len(s) |->
        IF i = 1 \/ s[i-1] = "-" THEN ToUpper(s[i]) ELSE ToLower(s[i])]

\* ---------------------------------------------------------------- headers
\* An http.Header: a function from keys to the sequence of their values.
EmptyHeader == [k \in {} |-> <<>>]

\* http.Header.Add: append under the canonical key.
HeaderAdd(h, key, value) ==
    LET k == CanonicalMIMEHeaderKey(key)
    IN  [x \in DOMAIN h \cup {k} |->
            IF x = k
            THEN (IF k \in DOMAIN h THEN Append(h[k], value) ELSE <<value>>)
            ELSE h[x]]

\* http.Header.Set: replace whatever the canonical key held by one value.
HeaderSet(h, key, value) ==
    LET k == CanonicalMIMEHeaderKey(key)
    IN  [x \in DOMAIN h \cup {k} |-> IF x = k THEN <<value>> ELSE h[x]]

\* What net/http hands the handler (and the transport hands the client) for
\* the header lines of a message: each line appended under its canonical key.
RECURSIVE ReadMIMEHeader(_)
ReadMIMEHeader(lines) ==
    IF lines = <<>> THEN EmptyHeader
    ELSE LET n == Len(lines)
         IN  HeaderAdd(ReadMIMEHeader(SubSeq(lines, 1, n - 1)),
                       lines[n][1], lines[n][2])

\* A hop-by-hop set that forgets Upgrade (a mutation of hopHeaders).
hopHeadersNoUpgrade ==
    { <<"C","o","n","n","e","c","t","i","o","n">>,
      <<"P","r","o","x","y","-","C","o","n","n","e","c","t","i","o","n">>,
      <<"K","e","e","p","-","A","l","i","v","e">>,
      <<"P","r","o","x","y","-","A","u","t","h","e","n","t","i","c","a","t","e">>,
      <<"P","r","o","x","y","-","A","u","t","h","o","r","i","z","a","t","i","o","n">>,
      <<"T","e">>,
      <<"T","r","a","i","l","e","r">>,
      <<"T","r","a","n","s","f","e","r","-","E","n","c","o","d","i","n","g">> }

\* The keys of the hopHeaders map literal (the same in copyHeaders and in
\* copyResponseHeaders).
hopHeaders ==
    { <<"C","o","n","n","e","c","t","i","o","n">>,
      <<"P","r","o","x","y","-","C","o","n","n","e","c","t","i","o","n">>,
      <<"K","e","e","p","-","A","l","i","v","e">>,
      <<"P","r","o","x","y","-","A","u","t","h","e","n","t","i","c","a","t","e">>,
      <<"P","r","o","x","y","-","A","u","t","h","o","r","i","z","a","t","i","o","n">>,
      <<"T","e">>,
      <<"T","r","a","i","l","e","r">>,
      <<"T","r","a","n","s","f","e","r","-","E","n","c","o","d","i","n","g">>,
      <<"U","p","g","r","a","d","e">> }

\* for _, value := range values { dst.Add(name, value) }
RECURSIVE AddAll(_, _, _)
AddAll(dst, name, values) ==
    IF values = <<>> THEN dst
    ELSE AddAll(HeaderAdd(dst, name, Head(values)), name, Tail(values))

\* for name, values := range src { if !hopHeaders[name] { ... } }
\* (Go ranges over the map in an unspecified order; the keys are distinct,
\* so the result does not depend on it.)
RECURSIVE CopyLoop(_, _, _)
CopyLoop(dst, src, keys) ==
    IF keys = {} THEN dst
    ELSE LET name == CHOOSE k \in keys : TRUE
             next == IF name \notin hopHeaders
                     THEN AddAll(dst, name, src[name])
                     ELSE dst
         IN  CopyLoop(next, src, keys \ {name})

XForwardedFor   == <<"X","-","F","o","r","w","a","r","d","e","d","-","F","o","r">>
XForwardedProto == <<"X","-","F","o","r","w","a","r","d","e","d","-","P","r","o","t","o">>
XForwardedHost  == <<"X","-","F","o","r","w","a","r","d","e","d","-","H","o","s","t">>

\* dst.Header.Set("X-Forwarded-For", ...) done with Add (a mutation).
SetForwardedByAdd(dst, remoteAddr, host) ==
    LET a == HeaderAdd(dst, XForwardedFor, remoteAddr)
        b == HeaderAdd(a, XForwardedProto, "http")
    IN  IF host # "" THEN HeaderAdd(b, XForwardedHost, host) ELSE b

\* The three X-Forwarded-* assignments that end copyHeaders.
SetForwarded(dst, remoteAddr, host) ==
    LET a == HeaderSet(dst, XForwardedFor, remoteAddr)
        b == HeaderSet(a, XForwardedProto, "http")
    IN  IF host # "" THEN HeaderSet(b, XForwardedHost, host) ELSE b

\* copyHeaders(dst, src) on the fresh request of http.NewRequestWithContext.
copyHeaders(srcHeader, remoteAddr, host) ==
    SetForwarded(CopyLoop(EmptyHeader, srcHeader, DOMAIN srcHeader),
                 remoteAddr, host)

\* copyResponseHeaders(dst, src) on the ResponseWriter's still empty header.
copyResponseHeaders(srcHeader) ==
    CopyLoop(EmptyHeader, srcHeader, DOMAIN srcHeader)

\* Header names as a peer may spell them on the wire.
WireNames ==
    { <<"T","E">>,
      <<"u","P","G","R","A","D","E">>,
      <<"A","c","c","e","p","t">>, <<"a","c","c","e","p","t">>,
      <<"x","-","f","o","r","w","a","r","d","e","d","-","f","o","r">>,
      <<"X","-","F","o","r","w","a","r","d","e","d","-","H","o","s","t">> }

WireValues == {"v1", "v2"}

WireLine == WireNames \X WireValues

WireHeaders == UNION { [1..n -> WireLine] : n \in 0..MaxHdrLines }

RemoteAddrs == {"10.0.0.7:5123"}
Hosts == {"", "proxy.local"}

HInit ==
    /\ hpc = "wire"
    /\ hdir \in {"request", "response"}
    /\ hwire \in WireHeaders
    /\ hremote \in RemoteAddrs
    /\ hhost \in (IF hdir = "request" THEN Hosts ELSE {""})
    /\ hsrc = EmptyHeader
    /\ hdst = EmptyHeader

\* The header pipeline at rest (the specifications about other parts).
HIdle ==
    /\ hpc = "idle" /\ hdir = "request" /\ hwire = <<>>
    /\ hremote = "" /\ hhost = ""
    /\ hsrc = EmptyHeader /\ hdst = EmptyHeader

\* net/http reads the message: the handler sees canonical keys only.
HParse ==
    /\ hpc = "wire"
    /\ hsrc' = ReadMIMEHeader(hwire)
    /\ hpc' = "parsed"
    /\ UNCHANGED <<hdir, hwire, hremote, hhost, hdst>>
    /\ HFrame

\* ForwardRequest: copyHeaders(req, originalReq)
HCopyRequest ==
    /\ hpc = "parsed" /\ hdir = "request"
    /\ hdst' = copyHeaders(hsrc, hremote, hhost)
    /\ hpc' = "copied"
    /\ UNCHANGED <<hdir, hwire, hremote, hhost, hsrc>>
    /\ HFrame

\* ServeHTTP: copyResponseHeaders(w, resp)
HCopyResponse ==
    /\ hpc = "parsed" /\ hdir = "response"
    /\ hdst' = copyResponseHeaders(hsrc)
    /\ hpc' = "copied"
    /\ UNCHANGED <<hdir, hwire, hremote, hhost, hsrc>>
    /\ HFrame

HNext == HParse \/ HCopyRequest \/ HCopyResponse

\* ------------------------------------------------- header claims (C2, C9)
\* The values, in wire order, of the lines whose name is n in any letter case.
WireValuesOf(lines, n) ==
    LET sel == SelectSeq(lines, LAMBDA l : LowerStr(l[1]) = LowerStr(n))
    IN  [i \in 1..Len(sel) |-> sel[i][2]]

\* The nine hop-by-hop names of the specification, in lower case.
HopNamesLower ==
    { LowerStr(h) : h \in
        { <<"C","o","n","n","e","c","t","i","o","n">>,
          <<"P","r","o","x","y","-","C","o","n","n","e","c","t","i","o","n">>,
          <<"K","e","e","p","-","A","l","i","v","e">>,
          <<"P","r","o","x","y","-","A","u","t","h","e","n","t","i","c","a","t","e">>,
          <<"P","r","o","x","y","-","A","u","t","h","o","r","i","z","a","t","i","o","n">>,
          <<"T","e">>,
          <<"T","r","a","i","l","e","r">>,
          <<"T","r","a","n","s","f","e","r","-","E","n","c","o","d","i","n","g">>,
          <<"U","p","g","r","a","d","e">> } }

IsHopName(n) == LowerStr(n) \in HopNamesLower

NoHopHeader(h) == \A k \in DOMAIN h : ~IsHopName(k)

\* Every wire name in `names` arrives in h with all its values in order.
CopiedInOrder(names) ==
    \A i \in 1..Len(hwire) :
        LET n == hwire[i][1]
        IN  (n \in names /\ ~IsHopName(n)) =>
                \E k \in DOMAIN hdst :
                    /\ LowerStr(k) = LowerStr(n)
                    /\ hdst[k] = WireValuesOf(hwire, n)

\* The names copyHeaders overwrites after the copy.
Overwritten ==
    IF hdir = "request"
    THEN { n \in WireNames :
             \/ LowerStr(n) = LowerStr(XForwardedFor)
             \/ LowerStr(n) = LowerStr(XForwardedProto)
             \/ (hhost # "" /\ LowerStr(n) = LowerStr(XForwardedHost)) }
    ELSE {}

\* C2 as stated: after the copy no hop-by-hop header is present, whatever
\* the case of its name on the wire, and every other header is there with
\* all its values in their original order.
C2_AsStated ==
    hpc = "copied" => NoHopHeader(hdst) /\ CopiedInOrder(WireNames)

\* C2 amended: as C2, except that in the outbound request the inbound values
\* of X-Forwarded-For, X-Forwarded-Proto and (when the inbound Host is not
\* empty) X-Forwarded-Host are replaced rather than copied.
C2_HopStripped ==
    hpc = "copied" =>
        NoHopHeader(hdst) /\ CopiedInOrder(WireNames \ Overwritten)

\* A hop-by-hop header spelled in another case was on the wire next to a
\* header with two values, and the copy has run.
C2_Witness ==
    /\ hpc = "copied"
    /\ \E i \in 1..Len(hwire) :
          IsHopName(hwire[i][1]) /\ hwire[i][1] # CanonicalMIMEHeaderKey(hwire[i][1])
    /\ \E k \in DOMAIN hdst : Len(hdst[k]) = 2 /\ hdst[k][1] # hdst[k][2]

\* C9: the outbound request carries exactly one X-Forwarded-For, the inbound
\* remote address, exactly one X-Forwarded-Proto, "http", and, when the
\* inbound Host is not empty, X-Forwarded-Host is that Host.
C9_Forwarded ==
    (hpc = "copied" /\ hdir = "request") =>
        /\ XForwardedFor \in DOMAIN hdst
        /\ hdst[XForwardedFor] = <<hremote>>
        /\ XForwardedProto \in DOMAIN hdst
        /\ hdst[XForwardedProto] = <<"http">>
        /\ hhost # "" =>
              /\ XForwardedHost \in DOMAIN hdst
              /\ hdst[XForwardedHost] = <<hhost>>

\* The inbound request carried its own X-Forwarded-For and X-Forwarded-Host
\* values, and the copy has run.
C9_Witness ==
    /\ hpc = "copied" /\ hdir = "request" /\ hhost # ""
    /\ XForwardedFor \in DOMAIN hsrc
    /\ XForwardedHost \in DOMAIN hsrc


\* -------------------------------------------------------------------- URLs
\* First index of character c in s, or 0.
IndexOf(s, c) ==
    IF \E i \in 1..Len(s) : s[i] = c
    THEN CHOOSE i \in 1..Len(s) : s[i] = c /\ \A j \in 1..(i-1) : s[j] # c
    ELSE 0

HexDigits == {"0","1","2","3","4","5","6","7","8","9",
              "a","b","c","d","e","f","A","B","C","D","E","F"}

\* The character a %XY escape stands for (a pair <<X, Y>> for the bytes that
\* are not spelled out here).
Unhex(x, y) ==
    CASE x = "2" /\ y = "0" -> " "
      [] x = "2" /\ y = "3" -> "#"
      [] x = "2" /\ y = "5" -> "%"
      [] x = "2" /\ ToUpper(y) = "F" -> "/"
      [] x = "3" /\ ToUpper(y) = "F" -> "?"
      [] OTHER -> <<ToUpper(x), ToUpper(y)>>

\* net/url unescape: fails unless every '%' is followed by two hex digits.
RECURSIVE ValidEscapes(_)
ValidEscapes(s) ==
    IF s = <<>> THEN TRUE
    ELSE IF s[1] = "%"
         THEN /\ Len(s) >= 3
              /\ s[2] \in HexDigits /\ s[3] \in HexDigits
              /\ ValidEscapes(SubSeq(s, 4, Len(s)))
         ELSE ValidEscapes(Tail(s))

RECURSIVE Unescape(_)
Unescape(s) ==
    IF s = <<>> THEN <<>>
    ELSE IF s[1] = "%" /\ Len(s) >= 3
         THEN <<Unhex(s[2], s[3])>> \o Unescape(SubSeq(s, 4, Len(s)))
         ELSE <<s[1]>> \o Unescape(Tail(s))

\* net/url shouldEscape in a path, for the characters of the model.
ShouldEscape(c) == c \in {" ", "#", "%", "?"} \/ c \notin STRING

EscapeChar(c) ==
    CASE c = " " -> <<"%","2","0">>
      [] c = "#" -> <<"%","2","3">>
      [] c = "%" -> <<"%","2","5">>
      [] c = "?" -> <<"%","3","F">>
      [] OTHER   -> IF c \in STRING THEN <<c>> ELSE <<"%", c[1], c[2]>>

RECURSIVE Escape(_)
Escape(s) ==
    IF s = <<>> THEN <<>> ELSE EscapeChar(Head(s)) \o Escape(Tail(s))

\* net/url validEncoded in a path: no character that would need escaping,
\* '%' excepted.
ValidEncoded(s) ==
    \A i \in 1..Len(s) : s[i] = "%" \/ ~ShouldEscape(s[i])

\* url.URL.EscapedPath of a URL whose Path and RawPath were set by setPath(p).
EscapedPath(p) ==
    LET path    == Unescape(p)
        rawPath == IF Escape(path) = p THEN <<>> ELSE p
    IN  IF rawPath # <<>> /\ ValidEncoded(rawPath) THEN rawPath ELSE Escape(path)

\* The server's url.ParseRequestURI of the request target: [Path, RawQuery].
ParseRequestURI(target) ==
    LET q == IndexOf(target, "?")
        p == IF q = 0 THEN target ELSE SubSeq(target, 1, q - 1)
    IN  [Path     |-> Unescape(p),
         RawQuery |-> IF q = 0 THEN <<>> ELSE SubSeq(target, q + 1, Len(target))]

\* url.Parse as http.NewRequestWithContext applies it to targetURL: the
\* fragment is cut at the first '#', the query at the first '?', the scheme
\* at the first ':', the host at the first '/' after "//".
UrlParse(raw) ==
    LET h     == IndexOf(raw, "#")
        noFrg == IF h = 0 THEN raw ELSE SubSeq(raw, 1, h - 1)
        frag  == IF h = 0 THEN <<>> ELSE SubSeq(raw, h + 1, Len(raw))
        q     == IndexOf(noFrg, "?")
        noQry == IF q = 0 THEN noFrg ELSE SubSeq(noFrg, 1, q - 1)
        query == IF q = 0 THEN <<>> ELSE SubSeq(noFrg, q + 1, Len(noFrg))
        c     == IndexOf(noQry, ":")
        schm  == SubSeq(noQry, 1, c - 1)
        auth  == SubSeq(noQry, c + 3, Len(noQry))
        sl    == IndexOf(auth, "/")
        host  == IF sl = 0 THEN auth ELSE SubSeq(auth, 1, sl - 1)
        p     == IF sl = 0 THEN <<>> ELSE SubSeq(auth, sl, Len(auth))
    IN  [err      |-> ~(ValidEscapes(p) /\ ValidEscapes(frag)),
         Scheme   |-> schm,
         Host     |-> host,
         Path     |-> Unescape(p),
         RawQuery |-> query,
         Fragment |-> Unescape(frag),
         \* URL.RequestURI(): what the transport writes in the request line
         RequestURI |-> EscapedPath(p) \o
                        (IF query # <<>> THEN <<"?">> \o query ELSE <<>>)]

\* ForwardRequest's targetURL, built from the decoded Path (a mutation:
\* the '?' is appended whether or not there is a query).
targetURLAlwaysQuery(scheme, host, path, rawQuery) ==
    scheme \o <<":","/","/">> \o host \o path \o <<"?">> \o rawQuery

\* fmt.Sprintf("%s://%s%s", Scheme, Host, URL.Path), then "?" + RawQuery
\* when RawQuery is not empty.
targetURL(scheme, host, path, rawQuery) ==
    LET base == scheme \o <<":","/","/">> \o host \o path
    IN  IF rawQuery # <<>> THEN base \o <<"?">> \o rawQuery ELSE base

\* Request targets as a caller may send them: "/" and up to MaxPathTokens
\* tokens.
MaxPathTokens == 2

PathTokens == { <<"x">>, <<"/">>, <<"%","2","0">>, <<"%","2","F">>,
                <<"%","3","F">>, <<"%","2","3">>, <<"%","2","5">> }

RECURSIVE Flatten(_)
Flatten(ts) == IF ts = <<>> THEN <<>> ELSE Head(ts) \o Flatten(Tail(ts))

WirePaths ==
    { <<"/">> \o Flatten(ts) :
        ts \in UNION { [1..n -> PathTokens] : n \in 0..MaxPathTokens } }

WireQueries == { <<>>, <<"i","d","=","5">>, <<"k","=","%","2","0">> }

Methods == {"GET", "POST"}
Schemes == { <<"h","t","t","p">>, <<"h","t","t","p","s">> }
TargetHosts == { <<"t",".","c","o","m">> }

NoURL == [err |-> TRUE, Scheme |-> <<>>, Host |-> <<>>, Path |-> <<>>,
          RawQuery |-> <<>>, Fragment |-> <<>>, RequestURI |-> <<>>]

UInit ==
    /\ upc = "wire"
    /\ uscheme \in Schemes
    /\ uhost \in TargetHosts
    /\ umethod \in Methods
    /\ uwirePath \in WirePaths
    /\ uwireQuery \in WireQueries
    /\ uin = [Path |-> <<>>, RawQuery |-> <<>>]
    /\ utarget = <<>>
    /\ uout = NoURL
    /\ uoutMethod = ""

\* The URL pipeline at rest (the specifications about other parts).
UIdle ==
    /\ upc = "idle" /\ uscheme = <<>> /\ uhost = <<>> /\ umethod = ""
    /\ uwirePath = <<>> /\ uwireQuery = <<>>
    /\ uin = [Path |-> <<>>, RawQuery |-> <<>>]
    /\ utarget = <<>> /\ uout = NoURL /\ uoutMethod = ""

\* The server parses the request line and calls the handler.
UServe ==
    /\ upc = "wire"
    /\ uin' = ParseRequestURI(
                 uwirePath \o (IF uwireQuery # <<>> THEN <<"?">> \o uwireQuery
                                                    ELSE <<>>))
    /\ upc' = "served"
    /\ UNCHANGED <<uscheme, uhost, umethod, uwirePath, uwireQuery, utarget,
                   uout, uoutMethod>>
    /\ UFrame

\* ForwardRequest up to http.NewRequestWithContext.
UBuild ==
    /\ upc = "served"
    /\ utarget' = targetURL(uscheme, uhost, uin.Path, uin.RawQuery)
    /\ uout' = UrlParse(utarget')
    /\ uoutMethod' = IF uout'.err THEN "" ELSE umethod
    /\ upc' = "built"
    /\ UNCHANGED <<uscheme, uhost, umethod, uwirePath, uwireQuery, uin>>
    /\ UFrame

UNext == UServe \/ UBuild

\* ---------------------------------------------------------- configuration
Digits == <<"0","1","2","3","4","5","6","7","8","9">>

DigitVal(c) == (CHOOSE i \in 1..10 : Digits[i] = c) - 1

IsDigit(c) == \E i \in 1..10 : Digits[i] = c

RECURSIVE DigitsVal(_)
DigitsVal(s) ==
    IF s = <<>> THEN 0
    ELSE 10 * DigitsVal(SubSeq(s, 1, Len(s) - 1)) + DigitVal(s[Len(s)])

\* strconv.Atoi: an optional sign, then at least one digit and digits only.
Atoi(s) ==
    LET signed == s # <<>> /\ s[1] \in {"+", "-"}
        body   == IF signed THEN Tail(s) ELSE s
        ok     == body # <<>> /\ \A i \in 1..Len(body) : IsDigit(body[i])
    IN  [ok  |-> ok,
         val |-> IF ~ok THEN 0
                 ELSE IF signed /\ s[1] = "-" THEN 0 - DigitsVal(body)
                 ELSE DigitsVal(body)]

\* os.Getenv: the value, or "" when the variable is not set.
Getenv(env, name) == IF env[name].set THEN env[name].val ELSE ""
GetenvPort(env)   == IF env.PROXY_PORT.set THEN env.PROXY_PORT.val ELSE <<>>

\* applyEnvironmentOverrides without the PROXY_PASSWORD override (a mutation).
applyEnvironmentOverridesNoPassword(config, env) ==
    [ Port     |-> IF GetenvPort(env) # <<>> /\ Atoi(GetenvPort(env)).ok
                   THEN Atoi(GetenvPort(env)).val ELSE config.Port,
      Host     |-> IF Getenv(env, "PROXY_HOST") # ""
                   THEN Getenv(env, "PROXY_HOST") ELSE config.Host,
      TargetHost |-> IF Getenv(env, "TARGET_HOST") # ""
                   THEN Getenv(env, "TARGET_HOST") ELSE config.TargetHost,
      Scheme   |-> IF Getenv(env, "TARGET_SCHEME") # ""
                   THEN Getenv(env, "TARGET_SCHEME") ELSE config.Scheme,
      URL      |-> IF Getenv(env, "PROXY_URL") # ""
                   THEN Getenv(env, "PROXY_URL") ELSE config.URL,
      Username |-> IF Getenv(env, "PROXY_USERNAME") # ""
                   THEN Getenv(env, "PROXY_USERNAME") ELSE config.Username,
      Password |-> config.Password,
      Level    |-> IF Getenv(env, "LOG_LEVEL") # ""
                   THEN Getenv(env, "LOG_LEVEL") ELSE config.Level ]

\* applyEnvironmentOverrides: each variable that is not "" replaces its field;
\* PROXY_PORT only when strconv.Atoi accepts it.
applyEnvironmentOverrides(config, env) ==
    [ Port     |-> IF GetenvPort(env) # <<>> /\ Atoi(GetenvPort(env)).ok
                   THEN Atoi(GetenvPort(env)).val ELSE config.Port,
      Host     |-> IF Getenv(env, "PROXY_HOST") # ""
                   THEN Getenv(env, "PROXY_HOST") ELSE config.Host,
      TargetHost |-> IF Getenv(env, "TARGET_HOST") # ""
                   THEN Getenv(env, "TARGET_HOST") ELSE config.TargetHost,
      Scheme   |-> IF Getenv(env, "TARGET_SCHEME") # ""
                   THEN Getenv(env, "TARGET_SCHEME") ELSE config.Scheme,
      URL      |-> IF Getenv(env, "PROXY_URL") # ""
                   THEN Getenv(env, "PROXY_URL") ELSE config.URL,
      Username |-> IF Getenv(env, "PROXY_USERNAME") # ""
                   THEN Getenv(env, "PROXY_USERNAME") ELSE config.Username,
      Password |-> IF Getenv(env, "PROXY_PASSWORD") # ""
                   THEN Getenv(env, "PROXY_PASSWORD") ELSE config.Password,
      Level    |-> IF Getenv(env, "LOG_LEVEL") # ""
                   THEN Getenv(env, "LOG_LEVEL") ELSE config.Level ]

\* validateConfig with the port's upper limit off by one and no password
\* check (a mutation).
validateConfigLax(config) ==
    IF config.Port <= 0 \/ config.Port > 65536 THEN "invalid server port"
    ELSE IF config.TargetHost = "" THEN "target host is required"
    ELSE IF config.Scheme # "http" /\ config.Scheme # "https"
         THEN "invalid target scheme"
    ELSE IF config.URL = "" THEN "proxy URL is required"
    ELSE IF config.Username = "" THEN "proxy username is required"
    ELSE "nil"

\* validateConfig: the first failed check, or "nil".
validateConfig(config) ==
    IF config.Port <= 0 \/ config.Port > 65535 THEN "invalid server port"
    ELSE IF config.TargetHost = "" THEN "target host is required"
    ELSE IF config.Scheme # "http" /\ config.Scheme # "https"
         THEN "invalid target scheme"
    ELSE IF config.URL = "" THEN "proxy URL is required"
    ELSE IF config.Username = "" THEN "proxy username is required"
    ELSE IF config.Password = "" THEN "proxy password is required"
    ELSE "nil"

\* The nil *Config.
NilConfig == [nil |-> TRUE]

\* LoadConfig: open, decode, override, validate.
LoadConfigResult(file, env) ==
    IF file.kind = "missing"
    THEN [err |-> "failed to open config file", config |-> NilConfig]
    ELSE IF file.kind = "malformed"
    THEN [err |-> "failed to decode config", config |-> NilConfig]
    ELSE LET config == applyEnvironmentOverrides(file.json, env)
         IN  IF validateConfig(config) # "nil"
             THEN [err |-> "invalid configuration", config |-> NilConfig]
             ELSE [err |-> "nil", config |-> config]

\* The decoded content of a file: fields absent from the JSON are zero.
FileConfigs ==
    [ Port       : {0, 8080, 65536},
      Host       : {"0.0.0.0"},
      TargetHost : {"", "file.target"},
      Scheme     : {"https", "ftp"},
      URL        : {"", "http://file.proxy:8000"},
      Username   : {"", "file-user"},
      Password   : {"", "file-pass"},
      Level      : {"info"} ]

ZeroConfig == [Port |-> 0, Host |-> "", TargetHost |-> "", Scheme |-> "",
               URL |-> "", Username |-> "", Password |-> "", Level |-> ""]

Files ==
    {[kind |-> "missing", json |-> ZeroConfig],
     [kind |-> "malformed", json |-> ZeroConfig]}
    \cup {[kind |-> "ok", json |-> j] : j \in FileConfigs}

Unset == [set |-> FALSE, val |-> ""]
UnsetPort == [set |-> FALSE, val |-> <<>>]
SetTo(v) == [set |-> TRUE, val |-> v]

Environments ==
    [ PROXY_PORT     : {UnsetPort, SetTo(<<>>), SetTo(<<"9","9","9","9">>),
                        SetTo(<<"a","b","c">>), SetTo(<<"0">>),
                        SetTo(<<"6","5","5","3","6">>)},
      PROXY_HOST     : {Unset, SetTo("env.bind")},
      TARGET_HOST    : {Unset, SetTo(""), SetTo("env.target")},
      TARGET_SCHEME  : {Unset, SetTo("http")},
      PROXY_URL      : {Unset, SetTo("http://env.proxy:1")},
      PROXY_USERNAME : {Unset, SetTo("env-user")},
      PROXY_PASSWORD : {Unset, SetTo("env-pass")},
      LOG_LEVEL      : {Unset, SetTo("debug")} ]

NoEnvironment ==
    [ PROXY_PORT |-> UnsetPort, PROXY_HOST |-> Unset, TARGET_HOST |-> Unset,
      TARGET_SCHEME |-> Unset, PROXY_URL |-> Unset, PROXY_USERNAME |-> Unset,
      PROXY_PASSWORD |-> Unset, LOG_LEVEL |-> Unset ]

CInit ==
    /\ cpc = "call"
    /\ cfile \in Files
    /\ cenv \in Environments
    /\ cafter = ZeroConfig
    /\ cresult = [err |-> "nil", config |-> NilConfig]

\* The loader at rest (the specifications about other parts).
CIdle ==
    /\ cpc = "idle"
    /\ cfile = [kind |-> "missing", json |-> ZeroConfig]
    /\ cenv = NoEnvironment
    /\ cafter = ZeroConfig
    /\ cresult = [err |-> "nil", config |-> NilConfig]

\* config.LoadConfig(configPath)
LoadConfig ==
    /\ cpc = "call"
    /\ cafter' = IF cfile.kind = "ok"
                 THEN applyEnvironmentOverrides(cfile.json, cenv)
                 ELSE ZeroConfig
    /\ cresult' = LoadConfigResult(cfile, cenv)
    /\ cpc' = "done"
    /\ UNCHANGED <<cfile, cenv>>
    /\ CFrame

CNext == LoadConfig

\* ---------------------------------------------------------------- handlers
\* The handler invocations in progress: one slot per goroutine of the server.
Reqs == DOMAIN pc

\* context.WithTimeout(r.Context(), 30*time.Second) in ServeHTTP
RequestTimeout == 30
\* http.Client{Timeout: 30 * time.Second}
ClientTimeout == 30
\* context.WithTimeout(r.Context(), 5*time.Second) in HealthCheck
HealthTimeout == 5

StatusOK == 200
StatusMethodNotAllowed == 405
StatusBadGateway == 502
StatusServiceUnavailable == 503
StatusGatewayTimeout == 504

\* Every method let through (a mutation of MethodAllowed).
MethodAllowedAny(m) == TRUE
\* HealthCheck and Metrics: r.Method != http.MethodGet is answered with 405.
MethodAllowed(m) == m = "GET"

\* Every forwarding failure answered with 500 (a mutation of StatusFor).
StatusForInternalError(ctxErr) == 500
\* ServeHTTP: the status code and message for a forwarding failure, from what
\* ctx.Err() says when the handler asks.
StatusFor(ctxErr) ==
    IF ctxErr = "deadline" THEN StatusGatewayTimeout ELSE StatusBadGateway
MessageFor(ctxErr) ==
    IF ctxErr = "deadline" THEN "Request timeout" ELSE "Proxy error"

ContentType == <<"C","o","n","t","e","n","t","-","T","y","p","e">>

\* What an upstream may answer: a status line, these header lines, and up to
\* MaxBody chunks of body.
UpstreamStatuses == {200, 503}
UpstreamHeaderLines ==
    << << <<"c","o","n","t","e","n","t","-","t","y","p","e">>, "text/html" >>,
       << <<"u","P","G","R","A","D","E">>, "h2c" >> >>

NoCtx   == [deadline |-> 0, err |-> "none"]
NoTimer == [armed |-> FALSE, deadline |-> 0, fired |-> FALSE]
NoResp  == [status |-> 0, header |-> EmptyHeader, left |-> 0]
NoRoute == [url |-> "none", user |-> "none"]

\* A context with the deadline but no parent (a mutation of WithTimeout).
WithTimeoutBackground(parentGone, d) == [deadline |-> now + d, err |-> "nil"]
\* context.WithTimeout(parent, d): done at once when the parent is.
WithTimeout(parentGone, d) ==
    [deadline |-> now + d, err |-> IF parentGone THEN "canceled" ELSE "nil"]

\* cancel(): the first cause of a context stays.
Cancel(c) == [c EXCEPT !.err = IF @ = "nil" THEN "canceled" ELSE @]

\* The outbound call of r has been told to stop: its context is done or the
\* client's own timer has fired.
Aborted(r) == ctx[r].err \in {"canceled", "deadline"} \/ timer[r].fired

\* The error httpClient.Do returns once the call has been told to stop.
AbortError(r) ==
    IF ctx[r].err = "deadline" THEN "deadline"
    ELSE IF ctx[r].err = "canceled" THEN "canceled"
    ELSE "client_timeout"

\* Every logger call made at INFO (a mutation of LogEntry).
LogEntryAtInfo(level, msg, code, timedOut) ==
    [level |-> "INFO", msg |-> msg, status_code |-> code, timeout |-> timedOut]
\* A logger call: level, message and the two fields the claims read.
LogEntry(level, msg, code, timedOut) ==
    [level |-> level, msg |-> msg, status_code |-> code, timeout |-> timedOut]

\* http.Error(w, msg, code)
ErrorHeader ==
    HeaderSet(HeaderSet(EmptyHeader, ContentType, "text/plain; charset=utf-8"),
              <<"X","-","C","o","n","t","e","n","t","-","T","y","p","e","-",
                "O","p","t","i","o","n","s">>, "nosniff")

JSONHeader == HeaderSet(EmptyHeader, ContentType, "application/json")

\* A server with slots for the handler invocations in S, none begun.
SInitWith(S) ==
    /\ now = 0
    /\ served = 0
    /\ proxyKind \in {"valid", "unusable"}
    /\ targetOK \in BOOLEAN
    /\ proxyUser = "nil"
    /\ kind = [r \in S |-> "none"]
    /\ method = [r \in S |-> ""]
    /\ pathOK = [r \in S |-> TRUE]
    /\ pc = [r \in S |-> "idle"]
    /\ start = [r \in S |-> 0]
    /\ ctx = [r \in S |-> NoCtx]
    /\ timer = [r \in S |-> NoTimer]
    /\ gone = [r \in S |-> FALSE]
    /\ call = [r \in S |-> "none"]
    /\ routed = [r \in S |-> NoRoute]
    /\ ferr = [r \in S |-> "nil"]
    /\ statusCode = [r \in S |-> 0]
    /\ errorMsg = [r \in S |-> ""]
    /\ resp = [r \in S |-> NoResp]
    /\ wHeader = [r \in S |-> EmptyHeader]
    /\ wStatus = [r \in S |-> <<>>]
    /\ wBody = [r \in S |-> <<>>]
    /\ wOrder = [r \in S |-> <<>>]
    /\ log = [r \in S |-> <<>>]

\* No server (the specifications about the pure parts).
SIdle ==
    /\ now = 0 /\ served = 0 /\ proxyKind = "valid" /\ targetOK = TRUE /\ proxyUser = "nil"
    /\ kind = <<>> /\ method = <<>> /\ pathOK = <<>> /\ pc = <<>>
    /\ start = <<>> /\ ctx = <<>> /\ timer = <<>> /\ gone = <<>>
    /\ call = <<>> /\ routed = <<>> /\ ferr = <<>> /\ statusCode = <<>>
    /\ errorMsg = <<>> /\ resp = <<>> /\ wHeader = <<>> /\ wStatus = <<>>
    /\ wBody = <<>> /\ wOrder = <<>> /\ log = <<>>

\* Request paths a caller may send to ServeHTTP: one the outbound URL parser
\* accepts once decoded, and one it rejects ("/%25" decodes to "/%").
ServePaths == { <<"/","x">>, <<"/","%","2","5">> }

\* Whether http.NewRequestWithContext accepts the target URL built from the
\* decoded path of wire path p.
BuildableTable ==
    [p \in ServePaths \cup { <<"/">> } |->
        ~UrlParse(targetURL(<<"h","t","t","p">>, <<"t",".","c","o","m">>,
                            ParseRequestURI(p).Path, <<>>)).err]
Buildable(p) == BuildableTable[p]

\* The server accepts a request and starts its handler in a goroutine of its
\* own, with a ResponseWriter nothing has been written to: "/health" goes to
\* HealthCheck, "/metrics" to Metrics, everything else to ServeHTTP. Slots are
\* taken in order.
Arrive(r) ==
    \E k \in {"proxy", "health", "metrics"}, m \in Methods :
      \E p \in (IF k = "proxy" THEN ServePaths ELSE { <<"/">> }) :
        /\ pc[r] \in {"idle", "done"}
        /\ \A q \in Reqs : q < r => pc[q] # "idle"
        /\ served < MaxServed
        /\ served' = served + 1
        /\ kind' = [kind EXCEPT ![r] = k]
        /\ method' = [method EXCEPT ![r] = m]
        /\ pathOK' = [pathOK EXCEPT ![r] = Buildable(p)]
        /\ pc' = [pc EXCEPT ![r] = "entry"]
        /\ start' = [start EXCEPT ![r] = 0]
        /\ ctx' = [ctx EXCEPT ![r] = NoCtx]
        /\ timer' = [timer EXCEPT ![r] = NoTimer]
        /\ gone' = [gone EXCEPT ![r] = FALSE]
        /\ call' = [call EXCEPT ![r] = "none"]
        /\ routed' = [routed EXCEPT ![r] = NoRoute]
        /\ ferr' = [ferr EXCEPT ![r] = "nil"]
        /\ statusCode' = [statusCode EXCEPT ![r] = 0]
        /\ errorMsg' = [errorMsg EXCEPT ![r] = ""]
        /\ resp' = [resp EXCEPT ![r] = NoResp]
        /\ wHeader' = [wHeader EXCEPT ![r] = EmptyHeader]
        /\ wStatus' = [wStatus EXCEPT ![r] = <<>>]
        /\ wBody' = [wBody EXCEPT ![r] = <<>>]
        /\ wOrder' = [wOrder EXCEPT ![r] = <<>>]
        /\ log' = [log EXCEPT ![r] = <<>>]
        /\ UNCHANGED <<now, proxyKind, targetOK, proxyUser>>
        /\ SFrame

\* ServeHTTP: start, the "Request received" event, the derived context.
ServeHTTP_Begin(r) ==
    /\ pc[r] = "entry"
    /\ kind[r] = "proxy"
    /\ start' = [start EXCEPT ![r] = now]
    /\ log' = [log EXCEPT ![r] = Append(@, LogEntry("INFO", "Request received", 0, FALSE))]
    /\ ctx' = [ctx EXCEPT ![r] = WithTimeout(gone[r], RequestTimeout)]
    /\ pc' = [pc EXCEPT ![r] = "forward"]
    /\ UNCHANGED <<now, served, proxyKind, targetOK, proxyUser, kind, method,
                   pathOK, timer, gone, call, routed, ferr, statusCode,
                   errorMsg, resp, wHeader, wStatus, wBody, wOrder>>
    /\ SFrame

\* ForwardRequest: targetURL, http.NewRequestWithContext (which may fail),
\* copyHeaders, and the start of httpClient.Do, which arms the client's timer.
ForwardRequest_Build(r) ==
    /\ pc[r] = "forward"
    /\ ferr' = [ferr EXCEPT ![r] = IF pathOK[r] /\ targetOK THEN @ ELSE "bad_url"]
    /\ timer' = [timer EXCEPT ![r] = IF pathOK[r] /\ targetOK
                                  THEN [armed |-> TRUE, deadline |-> now + ClientTimeout,
                                        fired |-> FALSE]
                                  ELSE @]
    /\ call' = [call EXCEPT ![r] = IF pathOK[r] /\ targetOK THEN "active" ELSE @]
    /\ pc' = [pc EXCEPT ![r] = IF pathOK[r] /\ targetOK THEN "proxy_write" ELSE "classify"]
    /\ UNCHANGED <<now, served, proxyKind, targetOK, proxyUser, kind, method,
                   pathOK, start, ctx, gone, routed, statusCode, errorMsg,
                   resp, wHeader, wStatus, wBody, wOrder, log>>
    /\ SFrame

\* The transport asks the Proxy closure for this request's proxy: the closure
\* first assigns proxyURL.User, a field of the one URL all requests share.
Proxy_SetUser(r) ==
    /\ pc[r] = "proxy_write"
    /\ proxyUser' = "cfg"
    /\ pc' = [pc EXCEPT ![r] = "proxy_read"]
    /\ UNCHANGED <<now, served, proxyKind, targetOK, kind, method, pathOK,
                   start, ctx, timer, gone, call, routed, ferr, statusCode,
                   errorMsg, resp, wHeader, wStatus, wBody, wOrder, log>>
    /\ SFrame

\* The closure returns proxyURL; the transport reads it to reach the proxy.
Proxy_Return(r) ==
    /\ pc[r] = "proxy_read"
    /\ routed' = [routed EXCEPT ![r] = [url |-> proxyKind, user |-> proxyUser]]
    /\ pc' = [pc EXCEPT ![r] = "inflight"]
    /\ UNCHANGED <<now, served, proxyKind, targetOK, proxyUser, kind, method,
                   pathOK, start, ctx, timer, gone, call, ferr, statusCode,
                   errorMsg, resp, wHeader, wStatus, wBody, wOrder, log>>
    /\ SFrame

\* httpClient.Do returns the upstream's response to ForwardRequest.
Do_Response(r) ==
    \E st \in UpstreamStatuses, n \in 0..MaxBody :
      /\ pc[r] = "inflight"
      /\ kind[r] = "proxy"
      /\ proxyKind = "valid"
      /\ ~Aborted(r)
      /\ resp' = [resp EXCEPT ![r] = [status |-> st, header |-> ReadMIMEHeader(UpstreamHeaderLines),
                                    left |-> n]]
      /\ pc' = [pc EXCEPT ![r] = "relay"]
      /\ UNCHANGED <<now, served, proxyKind, targetOK, proxyUser, kind,
                     method, pathOK, start, ctx, timer, gone, call, routed,
                     ferr, statusCode, errorMsg, wHeader, wStatus, wBody,
                     wOrder, log>>
      /\ SFrame

\* httpClient.Do fails on its own: the proxy cannot be reached or refuses, or
\* the proxy URL is one the transport cannot use.
Do_Fail(r) ==
    \E cause \in (IF proxyKind = "valid" THEN {"connect", "proxy_reject"}
                                       ELSE {"bad_proxy_url"}) :
      /\ pc[r] = "inflight"
      /\ ferr' = [ferr EXCEPT ![r] = cause]
      /\ call' = [call EXCEPT ![r] = "failed"]
      /\ timer' = [timer EXCEPT ![r] = NoTimer]
      /\ pc' = [pc EXCEPT ![r] = IF kind[r] = "proxy" THEN "classify" ELSE "h_fail"]
      /\ UNCHANGED <<now, served, proxyKind, targetOK, proxyUser, kind,
                     method, pathOK, start, ctx, gone, routed, statusCode,
                     errorMsg, resp, wHeader, wStatus, wBody, wOrder, log>>
      /\ SFrame

\* httpClient.Do gives up because the call was told to stop.
Do_Abort(r) ==
    /\ pc[r] = "inflight"
    /\ Aborted(r)
    /\ ferr' = [ferr EXCEPT ![r] = AbortError(r)]
    /\ call' = [call EXCEPT ![r] = "failed"]
    /\ timer' = [timer EXCEPT ![r] = NoTimer]
    /\ pc' = [pc EXCEPT ![r] = IF kind[r] = "proxy" THEN "classify" ELSE "h_fail"]
    /\ UNCHANGED <<now, served, proxyKind, targetOK, proxyUser, kind, method,
                   pathOK, start, ctx, gone, routed, statusCode, errorMsg,
                   resp, wHeader, wStatus, wBody, wOrder, log>>
    /\ SFrame

\* ServeHTTP, err != nil: statusCode and errorMsg from ctx.Err().
ServeHTTP_Classify(r) ==
    /\ pc[r] = "classify"
    /\ statusCode' = [statusCode EXCEPT ![r] = StatusFor(ctx[r].err)]
    /\ errorMsg' = [errorMsg EXCEPT ![r] = MessageFor(ctx[r].err)]
    /\ pc' = [pc EXCEPT ![r] = "logerr"]
    /\ UNCHANGED <<now, served, proxyKind, targetOK, proxyUser, kind, method,
                   pathOK, start, ctx, timer, gone, call, routed, ferr, resp,
                   wHeader, wStatus, wBody, wOrder, log>>
    /\ SFrame

\* ServeHTTP: the "Failed to forward request" event; its timeout field reads
\* ctx.Err() again.
ServeHTTP_LogError(r) ==
    /\ pc[r] = "logerr"
    /\ log' = [log EXCEPT ![r] = Append(@, LogEntry("ERROR", "Failed to forward request",
                                               statusCode[r], ctx[r].err = "deadline"))]
    /\ pc' = [pc EXCEPT ![r] = "writeerr"]
    /\ UNCHANGED <<now, served, proxyKind, targetOK, proxyUser, kind, method,
                   pathOK, start, ctx, timer, gone, call, routed, ferr,
                   statusCode, errorMsg, resp, wHeader, wStatus, wBody,
                   wOrder>>
    /\ SFrame

\* ServeHTTP: the JSON error response, then return (the deferred cancel).
ServeHTTP_WriteError(r) ==
    /\ pc[r] = "writeerr"
    /\ wHeader' = [wHeader EXCEPT ![r] = JSONHeader]
    /\ wStatus' = [wStatus EXCEPT ![r] = Append(@, statusCode[r])]
    /\ wBody' = [wBody EXCEPT ![r] = Append(@, errorMsg[r])]
    /\ wOrder' = [wOrder EXCEPT ![r] = @ \o <<"headers", "status", "body">>]
    /\ ctx' = [ctx EXCEPT ![r] = Cancel(@)]
    /\ pc' = [pc EXCEPT ![r] = "done"]
    /\ UNCHANGED <<now, served, proxyKind, targetOK, proxyUser, kind, method,
                   pathOK, start, timer, gone, call, routed, ferr,
                   statusCode, errorMsg, resp, log>>
    /\ SFrame

\* ServeHTTP, success: copyResponseHeaders, then w.WriteHeader(resp.StatusCode).
ServeHTTP_Relay(r) ==
    /\ pc[r] = "relay"
    /\ wHeader' = [wHeader EXCEPT ![r] = copyResponseHeaders(resp[r].header)]
    /\ wStatus' = [wStatus EXCEPT ![r] = Append(@, resp[r].status)]
    /\ wOrder' = [wOrder EXCEPT ![r] = @ \o <<"headers", "status">>]
    /\ pc' = [pc EXCEPT ![r] = "copy"]
    /\ UNCHANGED <<now, served, proxyKind, targetOK, proxyUser, kind, method,
                   pathOK, start, ctx, timer, gone, call, routed, ferr,
                   statusCode, errorMsg, resp, wBody, log>>
    /\ SFrame

\* io.Copy moves one chunk of the upstream body to the caller.
Copy_Chunk(r) ==
    /\ pc[r] = "copy"
    /\ resp[r].left > 0
    /\ ~Aborted(r)
    /\ resp' = [resp EXCEPT ![r] = [@ EXCEPT !.left = @ - 1]]
    /\ wBody' = [wBody EXCEPT ![r] = Append(@, "chunk")]
    /\ wOrder' = [wOrder EXCEPT ![r] = Append(@, "body")]
    /\ UNCHANGED <<now, served, proxyKind, targetOK, proxyUser, kind, method,
                   pathOK, pc, start, ctx, timer, gone, call, routed, ferr,
                   statusCode, errorMsg, wHeader, wStatus, log>>
    /\ SFrame

\* io.Copy reaches the end of the body: the "Request completed" event, then
\* return (the deferred resp.Body.Close and cancel).
Copy_EOF(r) ==
    /\ pc[r] = "copy"
    /\ resp[r].left = 0
    /\ log' = [log EXCEPT ![r] = Append(@, LogEntry("INFO", "Request completed",
                                               resp[r].status, FALSE))]
    /\ ctx' = [ctx EXCEPT ![r] = Cancel(@)]
    /\ call' = [call EXCEPT ![r] = "closed"]
    /\ timer' = [timer EXCEPT ![r] = NoTimer]
    /\ pc' = [pc EXCEPT ![r] = "done"]
    /\ UNCHANGED <<now, served, proxyKind, targetOK, proxyUser, kind, method,
                   pathOK, start, gone, routed, ferr, statusCode, errorMsg,
                   resp, wHeader, wStatus, wBody, wOrder>>
    /\ SFrame

\* io.Copy fails because the call was told to stop (or the caller is gone):
\* the "Failed to copy response body" event, then return.
Copy_Abort(r) ==
    /\ pc[r] = "copy"
    /\ Aborted(r)
    /\ log' = [log EXCEPT ![r] = Append(@, LogEntry("ERROR", "Failed to copy response body",
                                               0, FALSE))]
    /\ ctx' = [ctx EXCEPT ![r] = Cancel(@)]
    /\ call' = [call EXCEPT ![r] = "closed"]
    /\ timer' = [timer EXCEPT ![r] = NoTimer]
    /\ pc' = [pc EXCEPT ![r] = "done"]
    /\ UNCHANGED <<now, served, proxyKind, targetOK, proxyUser, kind, method,
                   pathOK, start, gone, routed, ferr, statusCode, errorMsg,
                   resp, wHeader, wStatus, wBody, wOrder>>
    /\ SFrame

\* io.Copy fails because the upstream connection broke: the same event.
Copy_Broken(r) ==
    /\ pc[r] = "copy"
    /\ ~Aborted(r)
    /\ resp[r].left > 0
    /\ log' = [log EXCEPT ![r] = Append(@, LogEntry("ERROR", "Failed to copy response body",
                                               0, FALSE))]
    /\ ctx' = [ctx EXCEPT ![r] = Cancel(@)]
    /\ call' = [call EXCEPT ![r] = "closed"]
    /\ timer' = [timer EXCEPT ![r] = NoTimer]
    /\ pc' = [pc EXCEPT ![r] = "done"]
    /\ UNCHANGED <<now, served, proxyKind, targetOK, proxyUser, kind, method,
                   pathOK, start, gone, routed, ferr, statusCode, errorMsg,
                   resp, wHeader, wStatus, wBody, wOrder>>
    /\ SFrame

\* HealthCheck: 405 for any method but GET, else the 5-second context.
HealthCheck_Begin(r) ==
    /\ pc[r] = "entry"
    /\ kind[r] = "health"
    /\ wHeader' = [wHeader EXCEPT ![r] = IF ~MethodAllowed(method[r]) THEN ErrorHeader ELSE @]
    /\ wStatus' = [wStatus EXCEPT ![r] = IF ~MethodAllowed(method[r]) THEN Append(@, StatusMethodNotAllowed)
                                           ELSE @]
    /\ wBody' = [wBody EXCEPT ![r] = IF ~MethodAllowed(method[r]) THEN Append(@, "Method not allowed")
                                       ELSE @]
    /\ wOrder' = [wOrder EXCEPT ![r] = IF ~MethodAllowed(method[r]) THEN @ \o <<"headers", "status", "body">>
                                         ELSE @]
    /\ ctx' = [ctx EXCEPT ![r] = IF ~MethodAllowed(method[r]) THEN @
                                ELSE WithTimeout(gone[r], HealthTimeout)]
    /\ pc' = [pc EXCEPT ![r] = IF ~MethodAllowed(method[r]) THEN "done" ELSE "h_newreq"]
    /\ UNCHANGED <<now, served, proxyKind, targetOK, proxyUser, kind, method,
                   pathOK, start, timer, gone, call, routed, ferr,
                   statusCode, errorMsg, resp, log>>
    /\ SFrame

\* HealthCheck: the HEAD request to scheme://host; 503 when it cannot be
\* built, else the start of httpClient.Do.
HealthCheck_NewRequest(r) ==
    /\ pc[r] = "h_newreq"
    /\ log' = [log EXCEPT ![r] = IF targetOK THEN @
                                ELSE Append(@, LogEntry("ERROR",
                                       "Health check failed to create request", 0, FALSE))]
    /\ wHeader' = [wHeader EXCEPT ![r] = IF targetOK THEN @ ELSE ErrorHeader]
    /\ wStatus' = [wStatus EXCEPT ![r] = IF targetOK THEN @
                                        ELSE Append(@, StatusServiceUnavailable)]
    /\ wBody' = [wBody EXCEPT ![r] = IF targetOK THEN @ ELSE Append(@, "Health check failed")]
    /\ wOrder' = [wOrder EXCEPT ![r] = IF targetOK THEN @
                                      ELSE @ \o <<"headers", "status", "body">>]
    /\ ctx' = [ctx EXCEPT ![r] = IF targetOK THEN @ ELSE Cancel(@)]
    /\ timer' = [timer EXCEPT ![r] = IF targetOK
                                  THEN [armed |-> TRUE, deadline |-> now + ClientTimeout,
                                        fired |-> FALSE]
                                  ELSE @]
    /\ call' = [call EXCEPT ![r] = IF targetOK THEN "active" ELSE @]
    /\ pc' = [pc EXCEPT ![r] = IF targetOK THEN "proxy_write" ELSE "done"]
    /\ UNCHANGED <<now, served, proxyKind, targetOK, proxyUser, kind, method,
                   pathOK, start, gone, routed, ferr, statusCode, errorMsg,
                   resp>>
    /\ SFrame

\* HealthCheck: the probe got a response (which is dropped): 200 and the
\* healthy body, then return; the deferred cancel ends the call.
HealthCheck_Healthy(r) ==
    /\ pc[r] = "inflight"
    /\ kind[r] = "health"
    /\ proxyKind = "valid"
    /\ ~Aborted(r)
    /\ wHeader' = [wHeader EXCEPT ![r] = JSONHeader]
    /\ wStatus' = [wStatus EXCEPT ![r] = Append(@, StatusOK)]
    /\ wBody' = [wBody EXCEPT ![r] = Append(@, "healthy")]
    /\ wOrder' = [wOrder EXCEPT ![r] = @ \o <<"headers", "status", "body">>]
    /\ ctx' = [ctx EXCEPT ![r] = Cancel(@)]
    /\ call' = [call EXCEPT ![r] = "closed"]
    /\ timer' = [timer EXCEPT ![r] = NoTimer]
    /\ pc' = [pc EXCEPT ![r] = "done"]
    /\ UNCHANGED <<now, served, proxyKind, targetOK, proxyUser, kind, method,
                   pathOK, start, gone, routed, ferr, statusCode, errorMsg,
                   resp, log>>
    /\ SFrame

\* HealthCheck: the probe failed: the "Health check failed" event and 503.
HealthCheck_Failed(r) ==
    /\ pc[r] = "h_fail"
    /\ log' = [log EXCEPT ![r] = Append(@, LogEntry("ERROR", "Health check failed", 0, FALSE))]
    /\ wHeader' = [wHeader EXCEPT ![r] = ErrorHeader]
    /\ wStatus' = [wStatus EXCEPT ![r] = Append(@, StatusServiceUnavailable)]
    /\ wBody' = [wBody EXCEPT ![r] = Append(@, "Health check failed")]
    /\ wOrder' = [wOrder EXCEPT ![r] = @ \o <<"headers", "status", "body">>]
    /\ ctx' = [ctx EXCEPT ![r] = Cancel(@)]
    /\ pc' = [pc EXCEPT ![r] = "done"]
    /\ UNCHANGED <<now, served, proxyKind, targetOK, proxyUser, kind, method,
                   pathOK, start, timer, gone, call, routed, ferr,
                   statusCode, errorMsg, resp>>
    /\ SFrame

\* Metrics: 405 for any method but GET, else 200 and the JSON counters.
Metrics(r) ==
    /\ pc[r] = "entry"
    /\ kind[r] = "metrics"
    /\ wHeader' = [wHeader EXCEPT ![r] = IF ~MethodAllowed(method[r]) THEN ErrorHeader ELSE JSONHeader]
    /\ wStatus' = [wStatus EXCEPT ![r] = Append(@, IF ~MethodAllowed(method[r]) THEN StatusMethodNotAllowed
                                                                ELSE StatusOK)]
    /\ wBody' = [wBody EXCEPT ![r] = Append(@, IF ~MethodAllowed(method[r]) THEN "Method not allowed"
                                                            ELSE "metrics")]
    /\ wOrder' = [wOrder EXCEPT ![r] = @ \o <<"headers", "status", "body">>]
    /\ pc' = [pc EXCEPT ![r] = "done"]
    /\ UNCHANGED <<now, served, proxyKind, targetOK, proxyUser, kind, method,
                   pathOK, start, ctx, timer, gone, call, routed, ferr,
                   statusCode, errorMsg, resp, log>>
    /\ SFrame

\* The timer of context.WithTimeout fires.
CtxDeadline(r) ==
    /\ ctx[r].err = "nil"
    /\ now >= ctx[r].deadline
    /\ ctx' = [ctx EXCEPT ![r] = [@ EXCEPT !.err = "deadline"]]
    /\ UNCHANGED <<now, served, proxyKind, targetOK, proxyUser, kind, method,
                   pathOK, pc, start, timer, gone, call, routed, ferr,
                   statusCode, errorMsg, resp, wHeader, wStatus, wBody,
                   wOrder, log>>
    /\ SFrame

\* The timer of http.Client.Timeout fires.
ClientTimerFires(r) ==
    /\ timer[r].armed
    /\ ~timer[r].fired
    /\ now >= timer[r].deadline
    /\ timer' = [timer EXCEPT ![r] = [@ EXCEPT !.fired = TRUE]]
    /\ UNCHANGED <<now, served, proxyKind, targetOK, proxyUser, kind, method,
                   pathOK, pc, start, ctx, gone, call, routed, ferr,
                   statusCode, errorMsg, resp, wHeader, wStatus, wBody,
                   wOrder, log>>
    /\ SFrame

\* The caller goes away: the server cancels r.Context(), and with it the
\* context derived from it.
InboundCancel(r) ==
    /\ pc[r] \notin {"idle", "done"}
    /\ ~gone[r]
    /\ gone' = [gone EXCEPT ![r] = TRUE]
    /\ ctx' = [ctx EXCEPT ![r] = Cancel(@)]
    /\ UNCHANGED <<now, served, proxyKind, targetOK, proxyUser, kind, method,
                   pathOK, pc, start, timer, call, routed, ferr, statusCode,
                   errorMsg, resp, wHeader, wStatus, wBody, wOrder, log>>
    /\ SFrame

\* The deadlines of the timers that are armed and have not fired.
Pending ==
    {ctx[r].deadline : r \in {x \in Reqs : ctx[x].err = "nil"}}
    \cup {timer[r].deadline : r \in {x \in Reqs : timer[x].armed /\ ~timer[x].fired}}

\* Time passes, up to the next deadline: a timer that is due fires before
\* the clock moves on (nothing but the timers reads the clock).
Tick ==
    /\ Pending # {}
    /\ \A d \in Pending : d > now
    /\ now' = CHOOSE d \in Pending : \A e \in Pending : d <= e
    /\ UNCHANGED <<served, proxyKind, targetOK, proxyUser, kind, method,
                   pathOK, pc, start, ctx, timer, gone, call, routed, ferr,
                   statusCode, errorMsg, resp, wHeader, wStatus, wBody,
                   wOrder, log>>
    /\ SFrame

\* One step of the handler invocation in slot r, or of its timers and caller.
Step(r) ==
    \/ Arrive(r)
    \/ ServeHTTP_Begin(r) \/ ForwardRequest_Build(r)
    \/ Proxy_SetUser(r) \/ Proxy_Return(r)
    \/ Do_Response(r) \/ Do_Fail(r) \/ Do_Abort(r)
    \/ ServeHTTP_Classify(r) \/ ServeHTTP_LogError(r)
    \/ ServeHTTP_WriteError(r) \/ ServeHTTP_Relay(r)
    \/ Copy_Chunk(r) \/ Copy_EOF(r) \/ Copy_Abort(r) \/ Copy_Broken(r)
    \/ HealthCheck_Begin(r) \/ HealthCheck_NewRequest(r)
    \/ HealthCheck_Healthy(r) \/ HealthCheck_Failed(r)
    \/ Metrics(r)
    \/ CtxDeadline(r) \/ ClientTimerFires(r) \/ InboundCancel(r)

\* The steps in which no timer fires and no caller goes away.
UntimedStep(r) ==
    \/ Arrive(r)
    \/ ServeHTTP_Begin(r) \/ ForwardRequest_Build(r)
    \/ Proxy_SetUser(r) \/ Proxy_Return(r)
    \/ Do_Response(r) \/ Do_Fail(r)
    \/ ServeHTTP_Classify(r) \/ ServeHTTP_LogError(r)
    \/ ServeHTTP_WriteError(r) \/ ServeHTTP_Relay(r)
    \/ Copy_Chunk(r) \/ Copy_EOF(r) \/ Copy_Broken(r)
    \/ HealthCheck_Begin(r) \/ HealthCheck_NewRequest(r)
    \/ HealthCheck_Healthy(r) \/ HealthCheck_Failed(r)
    \/ Metrics(r)

\* The steps the handler goroutine of slot r takes by itself, and the returns
\* of a call that was told to stop or whose body has ended. At most the
\* steps of one position are enabled at a time.
Proceed(r) ==
    \/ ServeHTTP_Begin(r) \/ ForwardRequest_Build(r)
    \/ Proxy_SetUser(r) \/ Proxy_Return(r)
    \/ Do_Abort(r)
    \/ ServeHTTP_Classify(r) \/ ServeHTTP_LogError(r)
    \/ ServeHTTP_WriteError(r) \/ ServeHTTP_Relay(r)
    \/ Copy_EOF(r) \/ Copy_Abort(r)
    \/ HealthCheck_Begin(r) \/ HealthCheck_NewRequest(r)
    \/ HealthCheck_Failed(r)
    \/ Metrics(r)

\* Time passes and timers that are due fire.
Clock(r) == CtxDeadline(r) \/ ClientTimerFires(r) \/ Tick

\* The server keeps running whatever a handler did: the accept loop and the
\* handler goroutine are scheduled, and the clock runs. Nothing makes the
\* upstream answer or the caller stay.
SFairness ==
    /\ WF_vars(Arrive(1))
    /\ WF_vars(Proceed(1))
    /\ WF_vars(Clock(1))

\* ------------------------------------------------------------------ logger
\* type LogLevel int, by iota.
DEBUG == 0
INFO  == 1
WARN  == 2
ERROR == 3
LogLevels == {DEBUG, INFO, WARN, ERROR}

\* LogLevel.String
LevelString(l) ==
    IF l = DEBUG THEN "DEBUG"
    ELSE IF l = INFO THEN "INFO"
    ELSE IF l = WARN THEN "WARN"
    ELSE IF l = ERROR THEN "ERROR"
    ELSE "UNKNOWN"

\* strings.ToUpper on a whole string
UpperStr(s) == [i \in 1..Len(s) |-> ToUpper(s[i])]

\* parseLogLevel
parseLogLevel(levelStr) ==
    LET u == UpperStr(levelStr)
    IN  IF u = <<"D","E","B","U","G">> THEN DEBUG
        ELSE IF u = <<"I","N","F","O">> THEN INFO
        ELSE IF u \in { <<"W","A","R","N">>, <<"W","A","R","N","I","N","G">> }
             THEN WARN
        ELSE IF u = <<"E","R","R","O","R">> THEN ERROR
        ELSE INFO

\* json.Marshal of a string: a line break leaves as the two characters \n.
JSONEscape(c) == IF c = "\n" THEN "\\n" ELSE c
JSONString(s) == <<"\"">> \o [i \in 1..Len(s) |-> JSONEscape(s[i])] \o <<"\"">>

\* What one log call hands to fmt.Fprintln for an entry without fields
\* (Fields is omitted from the JSON when empty, and fieldsStr is ""), with
\* the line break Fprintln adds. "T" stands for the timestamp.
Render(format, level, message) ==
    IF format = "json"
    THEN <<"{", "\"timestamp\":", "\"T\"", ",", "\"level\":">>
         \o JSONString(<<LevelString(level)>>)
         \o <<",", "\"message\":">> \o JSONString(message) \o <<"}", "\n">>
    ELSE <<"[", "T", "]", " ", LevelString(level), " ">> \o message \o <<"\n">>

\* Logger.log: the characters written to l.writer.
log_(min, format, level, message) ==
    IF level < min THEN <<>> ELSE Render(format, level, message)

\* Log calls since the level was last set that the model follows.
MaxLogCalls == 4
\* Messages: of one line, and with a line break inside.
Messages == { <<"a">>, <<"a", "\n", "b">> }
\* cfg.Level as the configuration may spell it.
LevelStrings ==
    { <<"d","e","b","u","g">>, <<"I","N","F","O">>, <<"W","a","r","n","i","n","g">>,
      <<"w","a","r","n">>, <<"e","r","r","o","r">>, <<"t","r","a","c","e">> }

\* NewLogger(cfg)
LInit ==
    /\ lpc = "run"
    /\ lformat \in {"json", "text"}
    /\ \E s \in LevelStrings : llevel = parseLogLevel(s)
    /\ lhist = <<>>
    /\ lwritten = <<>>

\* No logger (the specifications about other parts).
LIdle ==
    /\ lpc = "idle" /\ lformat = "json" /\ llevel = INFO
    /\ lhist = <<>> /\ lwritten = <<>>

\* One of Debug, Info, Warn, Error: l.log(level, message, nil).
LogCall(level, message) ==
    /\ lpc = "run"
    /\ Len(lhist) < MaxLogCalls
    /\ lwritten' = log_(llevel, lformat, level, message)
    /\ lhist' = Append(lhist, [level |-> level, min |-> llevel,
                               written |-> lwritten'])
    /\ UNCHANGED <<lpc, lformat, llevel>>
    /\ LFrame

Debug == \E m \in Messages : LogCall(DEBUG, m)
Info  == \E m \in Messages : LogCall(INFO, m)
Warn  == \E m \in Messages : LogCall(WARN, m)
Error == \E m \in Messages : LogCall(ERROR, m)

\* Logger.SetLevel(level); the calls followed start again from here.
SetLevel ==
    \E level \in LogLevels :
        /\ lpc = "run"
        /\ level # llevel
        /\ llevel' = level
        /\ lhist' = <<>>
        /\ lwritten' = <<>>
        /\ UNCHANGED <<lpc, lformat>>
        /\ LFrame

LNext == Debug \/ Info \/ Warn \/ Error \/ SetLevel

\* -------------------------------------------------------------------- main
IsLetter(c) == c \in DOMAIN UpperOf \/ c \in DOMAIN LowerOf

\* net/url getScheme: [err, scheme, rest]. Letters go on; a digit, '+', '-'
\* or '.' goes on unless it comes first; ':' ends the scheme, and fails when
\* it comes first; anything else means there is no scheme.
RECURSIVE getScheme(_, _)
getScheme(raw, i) ==
    LET none == [err |-> FALSE, scheme |-> <<>>, rest |-> raw]
    IN  IF i > Len(raw) THEN none
        ELSE IF IsLetter(raw[i]) THEN getScheme(raw, i + 1)
        ELSE IF IsDigit(raw[i]) \/ raw[i] \in {"+", "-", "."}
             THEN (IF i = 1 THEN none ELSE getScheme(raw, i + 1))
        ELSE IF raw[i] = ":"
             THEN (IF i = 1
                   THEN [err |-> TRUE, scheme |-> <<>>, rest |-> <<>>]
                   ELSE [err |-> FALSE, scheme |-> SubSeq(raw, 1, i - 1),
                         rest |-> SubSeq(raw, i + 1, Len(raw))])
        ELSE none

\* url.Parse as NewClient applies it to cfg.Proxy.URL: whether it fails. It
\* fails on a missing scheme before ':', on a ':' in the first segment of a
\* relative path, and on a bad percent-escape.
ProxyURLFails(raw) ==
    LET s     == getScheme(raw, 1)
        slash == IndexOf(s.rest, "/")
        seg   == IF slash = 0 THEN s.rest ELSE SubSeq(s.rest, 1, slash - 1)
    IN  \/ s.err
        \/ (s.scheme = <<>> /\ slash # 1 /\ IndexOf(seg, ":") # 0)
        \/ ~ValidEscapes(s.rest)

\* NewHandler without the check for an empty URL (a mutation).
NewHandlerUnchecked(url) ==
    IF ProxyURLFails(url) THEN [err |-> "invalid proxy URL", handler |-> "nil"]
    ELSE [err |-> "nil", handler |-> "handler"]
\* proxy.NewHandler(cfg, logger), with NewClient up to url.Parse.
NewHandler(url) ==
    IF url = <<>> THEN [err |-> "proxy URL is required", handler |-> "nil"]
    ELSE IF ProxyURLFails(url)
         THEN [err |-> "invalid proxy URL", handler |-> "nil"]
    ELSE [err |-> "nil", handler |-> "handler"]

\* cfg.Proxy.URL as NewHandler may be given it: empty, "://i", "1:x", "%zz",
\* "h://p", "p".
ProxyURLs ==
    { <<>>, <<":","/","/","i">>, <<"1",":","x">>, <<"%","z","z">>,
      <<"h",":","/","/","p">>, <<"p">> }

\* Connections the server may be given.
MaxConns == 2
Conns == 1..MaxConns

\* context.WithTimeout(context.Background(), 10*time.Second) in main
ShutdownTimeout == 10

NotCalled == [err |-> "none", handler |-> "nil"]

\* main at the call of proxy.NewHandler.
MInit ==
    /\ mpc = "new"
    /\ murl \in ProxyURLs
    /\ mnew = NotCalled
    /\ mlisten = "none"
    /\ mconn = [c \in Conns |-> "none"]
    /\ mnow = 0
    /\ mctx = NoCtx
    /\ mlog = <<>>
    /\ mexit = "running"

\* No process (the specifications about other parts).
MIdle ==
    /\ mpc = "idle" /\ murl = <<>> /\ mnew = NotCalled /\ mlisten = "none"
    /\ mconn = <<>> /\ mnow = 0 /\ mctx = NoCtx /\ mlog = <<>>
    /\ mexit = "running"

\* main: handler, err := proxy.NewHandler(cfg, logger); on an error the
\* "Failed to create handler" entry and os.Exit(1); else the mux, the server
\* and the goroutine that will listen.
Main_NewHandler ==
    /\ mpc = "new"
    /\ mnew' = NewHandler(murl)
    /\ IF mnew'.err # "nil"
       THEN /\ mlog' = Append(mlog, "Failed to create handler")
            /\ mpc' = "exited"
            /\ mexit' = "1"
       ELSE /\ mpc' = "wait"
            /\ UNCHANGED <<mlog, mexit>>
    /\ UNCHANGED <<murl, mlisten, mconn, mnow, mctx>>
    /\ MFrame

\* The goroutine: "Server starting", and ListenAndServe has its listener.
Serve_Listen ==
    /\ mpc \in {"wait", "signalled"}
    /\ mlisten = "none"
    /\ mlisten' = "open"
    /\ mlog' = Append(mlog, "Server starting")
    /\ UNCHANGED <<mpc, murl, mnew, mconn, mnow, mctx, mexit>>
    /\ MFrame

\* The goroutine: ListenAndServe fails (the address is taken): "Server
\* failed to start" and os.Exit(1).
Serve_ListenFails ==
    /\ mpc \in {"wait", "signalled"}
    /\ mlisten = "none"
    /\ mlog' = mlog \o <<"Server starting", "Server failed to start">>
    /\ mpc' = "exited"
    /\ mexit' = "1"
    /\ UNCHANGED <<murl, mnew, mlisten, mconn, mnow, mctx>>
    /\ MFrame

\* The server accepts a connection and a request on it is being handled.
Accept(c) ==
    /\ mexit = "running"
    /\ mlisten = "open"
    /\ mconn[c] = "none"
    /\ mconn' = [mconn EXCEPT ![c] = "active"]
    /\ UNCHANGED <<mpc, murl, mnew, mlisten, mnow, mctx, mlog, mexit>>
    /\ MFrame

\* The handler of c returns and its connection goes idle: before the grace
\* period's context has expired ("done"), or after ("late").
Finish(c) ==
    /\ mexit = "running"
    /\ mconn[c] = "active"
    /\ mconn' = [mconn EXCEPT ![c] = IF mctx.err = "deadline" THEN "late"
                                                               ELSE "done"]
    /\ UNCHANGED <<mpc, murl, mnew, mlisten, mnow, mctx, mlog, mexit>>
    /\ MFrame

\* main: <-quit has SIGINT or SIGTERM; "Shutting down server".
Signal ==
    /\ mpc = "wait"
    /\ mpc' = "signalled"
    /\ mlog' = Append(mlog, "Shutting down server")
    /\ UNCHANGED <<murl, mnew, mlisten, mconn, mnow, mctx, mexit>>
    /\ MFrame

\* Shutdown_Begin with the listener left open (a mutation).
Shutdown_BeginListening ==
    /\ mpc = "signalled"
    /\ mctx' = [deadline |-> mnow + ShutdownTimeout, err |-> "nil"]
    /\ mpc' = "shutdown"
    /\ UNCHANGED <<murl, mnew, mlisten, mconn, mnow, mlog, mexit>>
    /\ MFrame

\* main: the 10-second context and the start of server.Shutdown(ctx), which
\* closes the listener; a ListenAndServe not yet begun will not listen.
Shutdown_Begin ==
    /\ mpc = "signalled"
    /\ mctx' = [deadline |-> mnow + ShutdownTimeout, err |-> "nil"]
    /\ mlisten' = "closed"
    /\ mpc' = "shutdown"
    /\ UNCHANGED <<murl, mnew, mconn, mnow, mlog, mexit>>
    /\ MFrame

\* server.Shutdown looks and finds no connection active: it returns nil,
\* main logs "Server exited" and returns.
Shutdown_Idle ==
    /\ mpc = "shutdown"
    /\ \A c \in Conns : mconn[c] # "active"
    /\ mlog' = Append(mlog, "Server exited")
    /\ mpc' = "exited"
    /\ mexit' = "0"
    /\ UNCHANGED <<murl, mnew, mlisten, mconn, mnow, mctx>>
    /\ MFrame

\* server.Shutdown takes ctx.Done(): it returns ctx.Err(), main logs "Server
\* forced to shutdown" and os.Exit(1) ends whatever is still running.
Shutdown_Expired ==
    /\ mpc = "shutdown"
    /\ mctx.err = "deadline"
    /\ mlog' = Append(mlog, "Server forced to shutdown")
    /\ mconn' = [c \in Conns |-> IF mconn[c] = "active" THEN "aborted"
                                                         ELSE mconn[c]]
    /\ mpc' = "exited"
    /\ mexit' = "1"
    /\ UNCHANGED <<murl, mnew, mlisten, mnow, mctx>>
    /\ MFrame

\* The timer of the shutdown context fires.
GraceTimer ==
    /\ mexit = "running"
    /\ mctx.err = "nil"
    /\ mnow >= mctx.deadline
    /\ mctx' = [mctx EXCEPT !.err = "deadline"]
    /\ UNCHANGED <<mpc, murl, mnew, mlisten, mconn, mnow, mlog, mexit>>
    /\ MFrame

\* Time passes, up to the end of the grace period. Shutdown looks at the
\* connections many times a second, so it has looked before a second passes.
MTick ==
    /\ mexit = "running"
    /\ mctx.err = "nil"
    /\ mnow < mctx.deadline
    /\ \E c \in Conns : mconn[c] = "active"
    /\ mnow' = mctx.deadline
    /\ UNCHANGED <<mpc, murl, mnew, mlisten, mconn, mctx, mlog, mexit>>
    /\ MFrame

MNext ==
    \/ Main_NewHandler
    \/ Serve_Listen \/ Serve_ListenFails
    \/ \E c \in Conns : Accept(c) \/ Finish(c)
    \/ Signal \/ Shutdown_Begin \/ Shutdown_Idle \/ Shutdown_Expired
    \/ GraceTimer \/ MTick

\* --------------------------------------------------------- specifications
InitHeaders == HInit /\ UIdle /\ CIdle /\ SIdle /\ LIdle /\ MIdle
InitURL     == UInit /\ HIdle /\ CIdle /\ SIdle /\ LIdle /\ MIdle
InitConfig  == CInit /\ HIdle /\ UIdle /\ SIdle /\ LIdle /\ MIdle
Init        == SInitWith({1}) /\ HIdle /\ UIdle /\ CIdle /\ LIdle /\ MIdle
InitConcurrent == SInitWith(1..NumReqs) /\ HIdle /\ UIdle /\ CIdle /\ LIdle /\ MIdle
InitLogger  == LInit /\ HIdle /\ UIdle /\ CIdle /\ SIdle /\ MIdle
InitMain    == MInit /\ HIdle /\ UIdle /\ CIdle /\ SIdle /\ LIdle

SpecHeaders == InitHeaders /\ [][HNext]_vars
SpecURL     == InitURL /\ [][UNext]_vars
SpecConfig  == InitConfig /\ [][CNext]_vars
SpecLogger  == InitLogger /\ [][LNext]_vars
SpecMain    == InitMain /\ [][MNext]_vars
Next        == (\E r \in {1} : Step(r)) \/ Tick
NextConcurrent == \E r \in 1..NumReqs : UntimedStep(r)
Spec        == Init /\ [][Next]_vars
FairSpec    == Spec /\ SFairness
SpecConcurrent == InitConcurrent /\ [][NextConcurrent]_vars

\* ------------------------------------------------------- URL claim (C3)
\* C3 as stated: the outbound request is built for every inbound request,
\* its URL has the configured scheme and host, the inbound path and the
\* inbound query (present exactly when it is not empty), both unmodified,
\* and its method is the inbound method.
C3_AsStated ==
    upc = "built" =>
        /\ ~uout.err
        /\ uout.Scheme = uscheme /\ uout.Host = uhost
        /\ uout.Path = uin.Path
        /\ uout.RawQuery = uin.RawQuery
        /\ uoutMethod = umethod

\* ------------------------------------------------ config claims (C6, C7)
\* The failures C6 lists, on a Config.
ListedInvalid(c) ==
    \/ c.TargetHost = "" \/ c.URL = "" \/ c.Username = "" \/ c.Password = ""
    \/ c.Port \notin 1..65535
    \/ c.Scheme \notin {"http", "https"}

\* C6: LoadConfig returns an error and no Configuration whenever, after the
\* environment overrides, a required field is empty, the port is outside
\* 1..65535 or the scheme is neither http nor https; a Configuration is
\* returned only when all these checks pass (and it is the overridden one).
C6_Validation ==
    cpc = "done" =>
        /\ (cfile.kind = "ok" /\ ListedInvalid(cafter)) =>
              (cresult.err # "nil" /\ cresult.config = NilConfig)
        /\ cresult.err # "nil" => cresult.config = NilConfig
        /\ cresult.err = "nil" =>
              /\ cfile.kind = "ok"
              /\ cresult.config = cafter
              /\ ~ListedInvalid(cresult.config)

\* A file that decodes, whose only fault after the overrides (which set the
\* port and the scheme) is the empty password, was refused.
C6_Witness ==
    /\ cpc = "done" /\ cfile.kind = "ok" /\ cresult.err # "nil"
    /\ cafter.Password = "" /\ cafter.Port = 9999
    /\ cafter.TargetHost # "" /\ cafter.URL # "" /\ cafter.Username # ""
    /\ cafter.Scheme = "http"

\* The documented variables with a string field, and that field.
DocumentedVars ==
    { <<"PROXY_HOST", "Host">>, <<"TARGET_HOST", "TargetHost">>,
      <<"PROXY_URL", "URL">>, <<"PROXY_USERNAME", "Username">>,
      <<"PROXY_PASSWORD", "Password">>, <<"LOG_LEVEL", "Level">> }

\* C7 as stated: in the returned Configuration every documented variable that
\* is set holds the variable's value, every other field the file's value.
C7_AsStated ==
    (cpc = "done" /\ cresult.err = "nil") =>
        /\ \A p \in DocumentedVars :
              cresult.config[p[2]] =
                 (IF cenv[p[1]].set THEN cenv[p[1]].val ELSE cfile.json[p[2]])
        /\ IF cenv.PROXY_PORT.set
           THEN /\ Atoi(cenv.PROXY_PORT.val).ok
                /\ cresult.config.Port = Atoi(cenv.PROXY_PORT.val).val
           ELSE cresult.config.Port = cfile.json.Port

\* C7 amended: a documented variable set to a value that is not empty (for
\* PROXY_PORT: that strconv.Atoi accepts) is held by the returned
\* Configuration whatever the file says; a variable that is unset, empty or
\* (PROXY_PORT) not an integer leaves the file's value.
C7_EnvPrecedence ==
    (cpc = "done" /\ cresult.err = "nil") =>
        /\ \A p \in DocumentedVars :
              cresult.config[p[2]] =
                 (IF cenv[p[1]].set /\ cenv[p[1]].val # ""
                  THEN cenv[p[1]].val ELSE cfile.json[p[2]])
        /\ cresult.config.Port =
              (IF cenv.PROXY_PORT.set /\ Atoi(cenv.PROXY_PORT.val).ok
               THEN Atoi(cenv.PROXY_PORT.val).val ELSE cfile.json.Port)

\* A Configuration was returned with the port and the password taken from the
\* environment against a file that said otherwise, and the target host,
\* whose variable is unset, taken from the file.
C7_Witness ==
    /\ cpc = "done" /\ cresult.err = "nil"
    /\ cenv.PROXY_PORT.set /\ cresult.config.Port = 9999
    /\ cfile.json.Port = 8080
    /\ cenv.PROXY_PASSWORD.set /\ cfile.json.Password = "file-pass"
    /\ cresult.config.Password = "env-pass"
    /\ ~cenv.TARGET_HOST.set /\ cresult.config.TargetHost = "file.target"

\* ------------------------------------------------------------ handler claims
ProxyReqs == {r \in Reqs : kind[r] = "proxy"}

\* The "Failed to forward request" entries of r's log.
ForwardErrors(r) ==
    SelectSeq(log[r], LAMBDA e : e.msg = "Failed to forward request")

HasContentTypeJSON(h) ==
    /\ ContentType \in DOMAIN h
    /\ h[ContentType] = <<"application/json">>

\* What the caller and the log are told about a failure of either class.
ToldTimeout(r) ==
    /\ wStatus[r] = <<504>>
    /\ wBody[r] = <<"Request timeout">>
    /\ ForwardErrors(r) =
         <<LogEntry("ERROR", "Failed to forward request", 504, TRUE)>>
ToldProxyError(r) ==
    /\ wStatus[r] = <<502>>
    /\ wBody[r] = <<"Proxy error">>
    /\ ForwardErrors(r) =
         <<LogEntry("ERROR", "Failed to forward request", 502, FALSE)>>

\* C1 as stated: when ForwardRequest has returned an error and ServeHTTP is
\* done, a deadline-exceeded failure was answered with 504 "Request timeout"
\* and logged with status_code 504 and timeout true; a connect failure, a
\* proxy rejection, a cancellation or an unusable URL was answered with 502
\* "Proxy error" and logged with status_code 502 and timeout false; either
\* way the response says Content-Type application/json. (A failure by the
\* client's own timeout is held to neither class here.)
C1_AsStated ==
    \A r \in ProxyReqs :
        (pc[r] = "done" /\ ferr[r] # "nil") =>
            /\ HasContentTypeJSON(wHeader[r])
            /\ ferr[r] = "deadline" => ToldTimeout(r)
            /\ ferr[r] \in {"connect", "proxy_reject", "canceled",
                            "bad_proxy_url", "bad_url"} => ToldProxyError(r)
            /\ ToldTimeout(r) \/ ToldProxyError(r)

\* The upstream's header lines without the hop-by-hop ones, as the caller
\* should see them.
RelayedHeader ==
    [k \in { <<"C","o","n","t","e","n","t","-","T","y","p","e">> } |->
        <<"text/html">>]

C4_Written(r) ==
    /\ Len(wStatus[r]) <= 1
    /\ pc[r] = "done" =>
         /\ Len(wStatus[r]) = 1
         /\ ferr[r] = "nil" =>
              /\ wStatus[r] = <<resp[r].status>>
              /\ resp[r].status \in UpstreamStatuses
              /\ wHeader[r] = RelayedHeader
              /\ Len(wOrder[r]) >= 2
              /\ wOrder[r][1] = "headers" /\ wOrder[r][2] = "status"
              /\ \A i \in 3..Len(wOrder[r]) : wOrder[r][i] = "body"
              /\ \A i \in 1..Len(wBody[r]) : wBody[r][i] = "chunk"
         /\ ferr[r] # "nil" =>
              /\ wStatus[r][1] \in {502, 504}
              /\ resp[r] = NoResp
              /\ DOMAIN wHeader[r] = {ContentType}
              /\ wBody[r] \in {<<"Proxy error">>, <<"Request timeout">>}

Stopped(r) ==
    gone[r] \/ ctx[r].err \in {"canceled", "deadline"} \/ timer[r].fired

C5_Contexts(r) ==
    /\ ctx[r] # NoCtx =>
         /\ ctx[r].deadline = start[r] + 30
         /\ gone[r] => ctx[r].err # "nil"
         /\ ctx[r].err = "nil" => now <= ctx[r].deadline
    /\ timer[r].armed =>
         /\ timer[r].deadline - 30 \in start[r]..now
         /\ ~timer[r].fired => now <= timer[r].deadline
    /\ pc[r] = "done" => call[r] # "active" /\ ctx[r].err # "nil"

C5_NoProgress(r) ==
    (Stopped(r) /\ call[r] = "active") =>
        /\ resp'[r] = resp[r]
        /\ wBody'[r] = wBody[r]

\* C5: the context ServeHTTP forwards under ends 30 seconds after the handler
\* began and is done whenever the inbound request is cancelled; the client's
\* timer ends 30 seconds after the call began; once the caller is gone, the
\* derived deadline has fired or the client's timer has fired, the call
\* obtains no response and relays no further body byte; and no call is still
\* active when the handler has returned.
C5_Abandoned ==
    /\ [](\A r \in ProxyReqs : C5_Contexts(r))
    /\ [][\A r \in ProxyReqs : C5_NoProgress(r)]_vars

\* Each of the three causes has ended a call.
C5_Witness ==
    /\ kind[1] = "proxy" /\ pc[1] = "classify" /\ call[1] = "failed"
    /\ ferr[1] = "client_timeout" /\ timer[1] = NoTimer

LocalReqs == {r \in Reqs : kind[r] \in {"health", "metrics"}}

\* C8: HealthCheck and Metrics answer a request that is not a GET with 405
\* and never start an upstream call for it; Metrics answers a GET with 200
\* and Content-Type application/json; HealthCheck answers a GET with 200,
\* JSON and the healthy body when its probe got a response, and with 503
\* when it did not, as it never does with an unusable proxy URL.
C8_LocalEndpoints ==
    \A r \in LocalReqs :
        /\ method[r] # "GET" =>
             /\ call[r] = "none"
             /\ pc[r] = "done" => wStatus[r] = <<405>>
        /\ (method[r] = "GET" /\ pc[r] = "done") =>
             IF kind[r] = "metrics"
             THEN wStatus[r] = <<200>> /\ HasContentTypeJSON(wHeader[r])
             ELSE IF call[r] = "closed"
                  THEN /\ wStatus[r] = <<200>>
                       /\ HasContentTypeJSON(wHeader[r])
                       /\ wBody[r] = <<"healthy">>
                       /\ proxyKind = "valid" /\ targetOK
                  ELSE wStatus[r] = <<503>>

\* A GET /health has been answered 503 because the proxy URL is unusable.
C8_Witness ==
    \E r \in LocalReqs :
        /\ kind[r] = "health" /\ method[r] = "GET" /\ pc[r] = "done"
        /\ proxyKind = "unusable" /\ ferr[r] = "bad_proxy_url"
        /\ wStatus[r] = <<503>>

\* C10 as stated: no two requests are ever at once at a write of shared
\* data, or one at a write and the other at a read of it, and every call
\* that has been routed was routed to the configured proxy URL with the
\* configured credentials.
C10_AsStated ==
    /\ \A r1, r2 \in Reqs :
         (r1 # r2 /\ pc[r1] = "proxy_write") =>
             pc[r2] \notin {"proxy_write", "proxy_read"}
    /\ \A r \in Reqs :
         routed[r] # NoRoute => routed[r].user = "cfg"

\* The three events that end a ServeHTTP invocation.
TerminalMsgs ==
    {"Request completed", "Failed to forward request",
     "Failed to copy response body"}

EventsOf(r, msgs) == SelectSeq(log[r], LAMBDA e : e.msg \in msgs)

C14_Events(r) ==
    /\ Len(EventsOf(r, {"Request received"})) <= 1
    /\ Len(EventsOf(r, TerminalMsgs)) <= 1
    /\ (call[r] # "none" \/ pc[r] \notin {"idle", "entry"}) =>
         /\ Len(log[r]) >= 1
         /\ log[r][1].level = "INFO" /\ log[r][1].msg = "Request received"
    /\ pc[r] \in {"forward", "proxy_write", "proxy_read", "inflight",
                  "relay", "copy", "classify"} => Len(log[r]) = 1
    /\ pc[r] = "done" =>
         /\ Len(log[r]) = 2
         /\ log[r][2].msg \in TerminalMsgs
         /\ log[r][2].msg = "Failed to forward request" <=> ferr[r] # "nil"
         /\ log[r][2].msg = "Failed to forward request" =>
              log[r][2].level = "ERROR"
         /\ log[r][2].msg = "Request completed" =>
              /\ log[r][2].level = "INFO"
              /\ resp[r].left = 0
              /\ call[r] = "closed"
         /\ log[r][2].msg = "Failed to copy response body" =>
              /\ log[r][2].level = "ERROR"
              /\ wOrder[r][1] = "headers" /\ wOrder[r][2] = "status"
              /\ wStatus[r] = <<resp[r].status>>
              /\ call[r] = "closed"

\* Once the body copy has failed, nothing more is written for the invocation.
C14_Abandoned(r) ==
    (/\ served' = served
     /\ Len(log[r]) = 2
     /\ log[r][2].msg = "Failed to copy response body") =>
        /\ wStatus'[r] = wStatus[r] /\ wHeader'[r] = wHeader[r]
        /\ wBody'[r] = wBody[r] /\ log'[r] = log[r]

LinesIn(out) == Len(SelectSeq(out, LAMBDA c : c = "\n"))

\* The levels called since the level was set are the four, once each.
OneCallPerLevel ==
    /\ Len(lhist) = 4
    /\ {lhist[i].level : i \in 1..4} = {0, 1, 2, 3}

\* C13 as stated: a log call writes exactly one line when its level is at
\* or above the logger's minimum at the time and nothing otherwise; and with
\* minimum ERROR, one call at each of the four levels leaves one line in the
\* output, written by the ERROR call.
C13_AsStated ==
    /\ \A i \in 1..Len(lhist) :
         /\ lhist[i].level >= lhist[i].min => LinesIn(lhist[i].written) = 1
         /\ lhist[i].level < lhist[i].min => lhist[i].written = <<>>
    /\ (llevel = 3 /\ OneCallPerLevel) =>
         \E i \in 1..4 :
             /\ lhist[i].level = 3 /\ LinesIn(lhist[i].written) = 1
             /\ \A j \in 1..4 : j # i => lhist[j].written = <<>>

\* What does hold: a call writes one entry, ended by a line break, exactly
\* when its level is at or above the minimum, and that entry is one line
\* when the format is JSON.
Filtered ==
    \A i \in 1..Len(lhist) :
        LET e == lhist[i]
        IN  /\ e.written # <<>> <=> e.level >= e.min
            /\ e.written # <<>> => e.written[Len(e.written)] = "\n"
            /\ (e.written # <<>> /\ lformat = "json") => LinesIn(e.written) = 1

\* -------------------------------------------------------------- main claims
\* The URLs of ProxyURLs that are empty or that url.Parse rejects.
BadProxyURLs ==
    { <<>>, <<":","/","/","i">>, <<"1",":","x">>, <<"%","z","z">> }

\* C12: NewHandler returns an error and a nil Handler for an empty proxy URL
\* and for one that does not parse; in main that error is logged and the
\* process exits with status 1 with no listener ever opened and no
\* connection accepted.
C12_Fatal ==
    /\ mpc = "new" => mlisten = "none"
    /\ mnew # NotCalled =>
         /\ murl \in BadProxyURLs =>
              mnew.err # "nil" /\ mnew.handler = "nil"
         /\ mnew.err # "nil" =>
              /\ mpc = "exited" /\ mexit = "1"
              /\ mlisten = "none"
              /\ \A c \in DOMAIN mconn : mconn[c] = "none"
              /\ mlog = <<"Failed to create handler">>

\* main has exited on an unparsable proxy URL.
C12_Witness ==
    /\ murl = <<":","/","/","i">> /\ mnew.err = "invalid proxy URL"
    /\ mpc = "exited" /\ mexit = "1" /\ mlisten = "none"

LastLog == IF mlog = <<>> THEN "" ELSE mlog[Len(mlog)]
InShutdown == mctx # NoCtx

\* C11 as stated: once Shutdown has begun nothing is accepted; if every
\* request in flight finished before the 10-second context expired the
\* process logged "Server exited" and returned normally; if one was still
\* unfinished at that moment it was aborted and the process exited with a
\* failure status.
C11_AsStated ==
    /\ InShutdown => mlisten = "closed" /\ mctx.deadline = 10
    /\ (InShutdown /\ mpc = "exited") =>
         IF \A c \in DOMAIN mconn : mconn[c] \in {"none", "done"}
         THEN LastLog = "Server exited" /\ mexit = "0"
         ELSE /\ mexit = "1"
              /\ \A c \in DOMAIN mconn : mconn[c] # "late"

C11_Exits ==
    /\ InShutdown =>
         /\ mlisten = "closed"
         /\ mctx.deadline = 10
         /\ mnow <= mctx.deadline
    /\ (InShutdown /\ mpc = "exited") =>
         /\ \A c \in DOMAIN mconn : mconn[c] # "active"
         /\ mexit = "0" =>
              /\ LastLog = "Server exited"
              /\ \A c \in DOMAIN mconn : mconn[c] # "aborted"
         /\ mexit = "1" =>
              /\ LastLog = "Server forced to shutdown"
              /\ mctx.err = "deadline" /\ mnow = mctx.deadline
         /\ mctx.err = "nil" => mexit = "0"
         /\ (\E c \in DOMAIN mconn : mconn[c] = "aborted") => mexit = "1"

C11_NoAccept ==
    InShutdown => \A c \in DOMAIN mconn :
                      mconn'[c] = "active" => mconn[c] = "active"

\* C11: once Shutdown has begun the listener is closed and no connection is
\* accepted; its context ends 10 seconds after and the process does not run
\* beyond that; if Shutdown finds no request in flight before the context is
\* done, the process logs "Server exited" and returns with status 0 and
\* nothing was aborted; the process exits with status 1 only after
\* the context is done, having logged "Server forced to shutdown", and the
\* requests then still in flight are aborted. A request that finishes as
\* the context ends may meet either exit.
C11_Grace ==
    /\ []C11_Exits
    /\ [][C11_NoAccept]_vars

\* The grace period has ended with a request in flight, which was aborted.
C11_Witness ==
    /\ mpc = "exited" /\ mexit = "1"
    /\ LastLog = "Server forced to shutdown"
    /\ \E c \in DOMAIN mconn : mconn[c] = "aborted"
====
